---- MODULE Spec2Model ----
(***************************************************************************)
(* A model of mics.MBAR (src/src/mics/MBAR.py): the engine object that     *)
(* fits a mixture of sampled states with the MBAR estimator                *)
(* (__initialize__) and answers reweighting queries (__reweight__).        *)
(*                                                                         *)
(* Numbers.  Every real number of the program is an exact rational <<p,q>> *)
(* with q > 0 and gcd(p,q) = 1; floating-point rounding is not modelled.   *)
(* A quantity the program holds in the log domain (a reduced potential, a  *)
(* free energy, a log-weight) is the record [ln |-> r], standing for the   *)
(* natural logarithm of the positive rational r: adding two such numbers   *)
(* multiplies the r's, np.exp takes the r out, np.log puts it in, and      *)
(* logsumexp adds the r's.                                                 *)
(*                                                                         *)
(* The estimator library (pymbar) and mics.utils are not part of the       *)
(* source file; their operators below are written from the equations of    *)
(* the specification (section 4) and from the layout the comments of       *)
(* __reweight__ give for the augmented problem.                            *)
(***************************************************************************)
EXTENDS Integers, Sequences, FiniteSets, TLC

\* ------------------------------------------------------ evaluation order
\* A Python expression is evaluated once and its value is then used; Bind
\* gives an operator's argument that meaning (the argument is evaluated,
\* then F is applied to the value).  Every vector or matrix is bound this
\* way before it is indexed.
Bind1(a, F(_)) == CHOOSE r \in {F(x) : x \in {a}} : TRUE

Bind2(a, b, F(_, _)) == CHOOSE r \in {F(x, y) : x \in {a}, y \in {b}} : TRUE

Bind3(a, b, c, F(_, _, _)) ==
  CHOOSE r \in {F(x, y, z) : x \in {a}, y \in {b}, z \in {c}} : TRUE

Bind4(a, b, c, d, F(_, _, _, _)) ==
  CHOOSE r \in {F(x, y, z, w) : x \in {a}, y \in {b}, z \in {c}, w \in {d}} :
    TRUE

\* --------------------------------------------------------------- rationals
RECURSIVE GCD(_, _)
GCD(a, b) == IF b = 0 THEN a ELSE Bind1(a % b, LAMBDA r : GCD(b, r))

Abs(a) == IF a < 0 THEN -a ELSE a

Rat(p, q) ==
  Bind2(p, q, LAMBDA n, d :
    Bind1(GCD(Abs(n), Abs(d)), LAMBDA g :
      IF d < 0 THEN <<-(n \div g), -(d \div g)>>
      ELSE <<n \div g, d \div g>>))

R(k) == <<k, 1>>

RAdd(a, b) ==
  Bind2(a, b, LAMBDA x, y : Rat(x[1] * y[2] + y[1] * x[2], x[2] * y[2]))

RSub(a, b) ==
  Bind2(a, b, LAMBDA x, y : Rat(x[1] * y[2] - y[1] * x[2], x[2] * y[2]))

RMul(a, b) == Bind2(a, b, LAMBDA x, y : Rat(x[1] * y[1], x[2] * y[2]))

RDiv(a, b) == Bind2(a, b, LAMBDA x, y : Rat(x[1] * y[2], x[2] * y[1]))

RNeg(a) == Bind1(a, LAMBDA x : <<-x[1], x[2]>>)

RLess(a, b) == Bind2(a, b, LAMBDA x, y : x[1] * y[2] < y[1] * x[2])

RECURSIVE RSumTo(_, _)
RSumTo(s, k) == IF k = 0 THEN R(0) ELSE RAdd(RSumTo(s, k - 1), s[k])

RSum(s) == Bind1(s, LAMBDA v : RSumTo(v, Len(v)))

RECURSIVE RMinTo(_, _)
RMinTo(s, k) ==
  IF k = 1 THEN s[1]
  ELSE Bind1(RMinTo(s, k - 1), LAMBDA m : IF RLess(s[k], m) THEN s[k] ELSE m)

RMin(s) == Bind1(s, LAMBDA v : RMinTo(v, Len(v)))

\* ------------------------------------------------------ log-domain numbers
Ln(r) == [ln |-> r]

Exp(x) == x.ln

LAdd(x, y) == Ln(RMul(x.ln, y.ln))

LSub(x, y) == Ln(RDiv(x.ln, y.ln))

LNeg(x) == Ln(RDiv(R(1), x.ln))

LZero == Ln(R(1))

LogSumExp(xs) ==
  Bind1(xs, LAMBDA v : Ln(RSum([i \in 1..Len(v) |-> Exp(v[i])])))

\* ---------------------------------------------------------------- matrices
\* A matrix is a sequence of rows.
Rows(A) == Len(A)

Cols(A) == IF Len(A) = 0 THEN 0 ELSE Len(A[1])

Transpose(A) ==
  Bind1(A, LAMBDA X : [j \in 1..Cols(X) |-> [i \in 1..Rows(X) |-> X[i][j]]])

MatMul(A, B) ==
  Bind2(A, B, LAMBDA X, Y :
    [i \in 1..Rows(X) |->
       [j \in 1..Cols(Y) |->
          RSum([k \in 1..Rows(Y) |-> RMul(X[i][k], Y[k][j])])]])

MultiDot(A, B, C) == MatMul(MatMul(A, B), C)

RECURSIVE GaussJordan(_, _, _)
GaussJordan(M, n, c) ==
  IF c > n THEN M
  ELSE Bind1([j \in 1..(2 * n) |-> RDiv(M[c][j], M[c][c])], LAMBDA rowc :
         Bind1([i \in 1..n |->
                  IF i = c THEN rowc
                  ELSE [j \in 1..(2 * n) |->
                          RSub(M[i][j], RMul(M[i][c], rowc[j]))]],
               LAMBDA M2 : GaussJordan(M2, n, c + 1)))

\* The inverse of a symmetric positive definite matrix (no pivoting needed).
Inverse(A) ==
  Bind1(A, LAMBDA X :
    Bind1(GaussJordan([i \in 1..Rows(X) |->
                         [j \in 1..(2 * Rows(X)) |->
                            IF j <= Rows(X) THEN X[i][j]
                            ELSE IF j - Rows(X) = i THEN R(1) ELSE R(0)]],
                      Rows(X), 1),
          LAMBDA red :
            [i \in 1..Rows(X) |-> [j \in 1..Rows(X) |-> red[i][Rows(X) + j]]]))

\* ------------------------------------------------------- array primitives
\* Code indices are 0-based; sequences are 1-based.
At(v, i) == v[i + 1]

At2(A, i, j) == A[i + 1][j + 1]

Zeros(r, c) == [i \in 1..r |-> [j \in 1..c |-> R(0)]]

SetAt(A, i, j, x) == [A EXCEPT ![i + 1][j + 1] = x]

RECURSIVE HStackTo(_, _)
HStackTo(blocks, k) ==
  IF k = 1 THEN blocks[1]
  ELSE Bind1(HStackTo(blocks, k - 1), LAMBDA left :
         [r \in 1..Len(left) |-> left[r] \o blocks[k][r]])

\* np.hstack of 2-d blocks with the same number of rows: columns side by side.
HStack(blocks) == Bind1(blocks, LAMBDA b : HStackTo(b, Len(b)))

Arange(n) == [i \in 1..n |-> i - 1]

\* ------------------------------------------------------ estimator library
MaxZ == 3

FreeEnergyCandidates == {Ln(Rat(p, q)) : p \in 1..MaxZ, q \in 1..MaxZ}

\* c_n = logsumexp_j(log N_j + f_j - U[j][n])
LogDenominator(u_kn, N_k, f_k) ==
  Bind3(u_kn, N_k, f_k, LAMBDA u, N, f :
    [n \in 1..Cols(u) |->
       LogSumExp([j \in 1..Len(N) |->
                    LAdd(Ln(R(N[j])), LSub(f[j], u[j][n]))])])

\* f_k = -logsumexp_n[-U[k][n] - c_n] for every k.
SelfConsistent(u_kn, N_k, f_k) ==
  Bind4(u_kn, N_k, f_k, LogDenominator(u_kn, N_k, f_k), LAMBDA u, N, f, c :
    \A k \in 1..Len(N) :
      f[k] = LNeg(LogSumExp([n \in 1..Cols(u) |-> LSub(LNeg(u[k][n]), c[n])])))

\* The converged solution, reported with f_0 = 0.
SolveFreeEnergies(u_kn, N_k) ==
  Bind2(u_kn, N_k, LAMBDA u, N :
    CHOOSE f \in [1..Len(N) -> FreeEnergyCandidates] :
      f[1] = LZero /\ SelfConsistent(u, N, f))

\* Log W[n][k] = f_k - U[k][n] - c_n
LogWeights(u_kn, N_k, f_k) ==
  Bind4(u_kn, N_k, f_k, LogDenominator(u_kn, N_k, f_k), LAMBDA u, N, f, c :
    [n \in 1..Cols(u) |->
       [k \in 1..Len(N) |-> LSub(LSub(f[k], u[k][n]), c[n])]])

ExpMatrix(L) ==
  Bind1(L, LAMBDA X : [i \in 1..Rows(X) |-> [j \in 1..Cols(X) |-> Exp(X[i][j])]])

\* mbar.MBAR(u_kn, N_k, ...): the fitted estimator object.
MBARFit(u_kn, N_k, tol, initial_f_k, verbose) ==
  Bind3(u_kn, N_k, SolveFreeEnergies(u_kn, N_k), LAMBDA u, N, f :
    Bind1(LogWeights(u, N, f), LAMBDA lw :
      [K |-> Len(N), N |-> Cols(u), N_k |-> N, u_kn |-> u,
       f_k |-> f, Log_W_nk |-> lw, W_nk |-> ExpMatrix(lw)]))

\* Theta = W^T (I - W diag(N_k) W^T)^+ W.  The matrix I - W diag(N_k) W^T is
\* symmetric with null space spanned by the all-ones vector (every weight of
\* a sampled state is positive), so its pseudo-inverse is
\* (I - W diag(N_k) W^T + J/N)^-1 - J/N with J the all-ones matrix.
ComputeAsymptoticCovarianceMatrix(W, N_k) ==
  Bind2(W, N_k, LAMBDA X, N :
    Bind1(Inverse([a \in 1..Rows(X) |->
                     [b \in 1..Rows(X) |->
                        RAdd(RSub(IF a = b THEN R(1) ELSE R(0),
                                  RSum([k \in 1..Cols(X) |->
                                          RMul(RMul(X[a][k], R(N[k])), X[b][k])])),
                             Rat(1, Rows(X)))]]),
          LAMBDA Si :
            MultiDot(Transpose(X),
                     [a \in 1..Rows(X) |->
                        [b \in 1..Rows(X) |-> RSub(Si[a][b], Rat(1, Rows(X)))]],
                     X)))

\* The positive offset that keeps a min-subtracted observable above zero, so
\* that its logarithm exists.
logfactor == 1

\* -u_n - c_n: the log-weight of every pooled sample under potential u_n,
\* before normalisation, with the denominators c_n of the stored fit.
ComputeUnnormalizedLogWeights(mb, u_n) ==
  Bind3(mb, u_n, LogDenominator(mb.u_kn, mb.N_k, mb.f_k), LAMBDA m, u, c :
    [n \in 1..m.N |-> LSub(LNeg(u[n]), c[n])])

\* A log-weight column normalised to sum to one, with its free energy
\* f = -logsumexp(column).
Normalized(raw) ==
  Bind1(raw, LAMBDA w :
    Bind1(LNeg(LogSumExp(w)), LAMBDA f :
      [f |-> f, Log_W |-> [n \in 1..Len(w) |-> LAdd(w[n], f)]]))

\* An observable row of length 1 broadcasts over the pooled samples.
Broadcast(row, n) == IF Len(row) = 1 THEN row[1] ELSE row[n]

\* Every observable row with its minimum, less logfactor, subtracted.
ShiftedObservables(A_n, N) ==
  Bind1(A_n, LAMBDA A :
    Bind1([i \in 1..Rows(A) |-> RSub(RMin(A[i]), R(logfactor))], LAMBDA A_min :
      [Amin |-> A_min,
       A |-> [i \in 1..Rows(A) |->
                [n \in 1..N |-> RSub(Broadcast(A[i], n), A_min[i])]]]))

\* MBAR.computeExpectationsInner(A_n, u_ln, state_map, return_theta=True).
\* state_map is [ndim |-> 1, a |-> states] or [ndim |-> 2, a |-> <<states,
\* properties>>]; with S map columns the augmented problem has the K fitted
\* states, then (ndim = 2 only) one numerator per column, then one
\* denominator (the column's state) per column.  The result holds the
\* covariance of the augmented columns, the free energy of each column's
\* state, each column's expectation and the shifts Amin.
ComputeExpectationsInner(mb, A_n, u_ln, state_map) ==
  Bind4(mb, ShiftedObservables(A_n, mb.N), u_ln, state_map, LAMBDA m, obs, u, sm :
    Bind2(IF sm.ndim = 1 THEN sm.a ELSE sm.a[1],
          IF sm.ndim = 1 THEN <<>> ELSE sm.a[2], LAMBDA states, props :
      Bind1([s \in 1..Len(states) |->
               Normalized(ComputeUnnormalizedLogWeights(m, u[states[s] + 1]))],
            LAMBDA den :
        Bind1([s \in 1..Len(props) |->
                 Normalized([n \in 1..m.N |->
                               LAdd(Ln(obs.A[props[s] + 1][n]),
                                    den[s].Log_W[n])])],
              LAMBDA num :
          Bind1(ComputeAsymptoticCovarianceMatrix(
                  ExpMatrix([n \in 1..m.N |->
                               m.Log_W_nk[n]
                                 \o [s \in 1..Len(num) |-> num[s].Log_W[n]]
                                 \o [s \in 1..Len(den) |-> den[s].Log_W[n]]]),
                  m.N_k \o [s \in 1..(Len(num) + Len(den)) |-> 0]),
                LAMBDA Theta_ij :
            [Theta |-> [a \in 1..(Len(num) + Len(den)) |->
                          [b \in 1..(Len(num) + Len(den)) |->
                             Theta_ij[m.K + a][m.K + b]]],
             f |-> [s \in 1..Len(den) |-> den[s].f],
             observables |->
               [s \in 1..Len(num) |->
                  RAdd(Exp(LNeg(num[s].f)), obs.Amin[props[s] + 1])],
             Amin |-> obs.Amin])))))

\* Which shapes the library takes without raising: the potentials must cover
\* the N pooled samples of the fit, and an observable row must have N entries
\* or broadcast from a single one.  Anything else is numpy's ValueError.
ShapesAccepted(mb, A_n, u_ln) ==
  /\ \A l \in 1..Len(u_ln) : Len(u_ln[l]) = mb.N
  /\ \A i \in 1..Len(A_n) : Len(A_n[i]) \in {1, mb.N}

\* What computeExpectationsInner has produced when it was not run.
NoResults == [Theta |-> <<>>, f |-> <<>>, observables |-> <<>>, Amin |-> <<>>]

\* ----------------------------------------------------------- mics helpers
RECURSIVE SumTo(_, _)
SumTo(n, k) == IF k = 0 THEN 0 ELSE SumTo(n, k - 1) + n[k]

\* sum(n) of a vector of counts
Sum(n) == SumTo(n, Len(n))

RECURSIVE ConcatTo(_, _)
ConcatTo(rows, k) == IF k = 0 THEN <<>> ELSE ConcatTo(rows, k - 1) \o rows[k]

\* np.hstack of 1-d arrays, and ndarray.flatten of a 2-d array: the rows end
\* to end.
Concat(rows) == Bind1(rows, LAMBDA r : ConcatTo(r, Len(r)))

\* mics.utils.logsumexp: over the first axis, one value per column.
LogSumExpAxis0(X) ==
  Bind1(X, LAMBDA x :
    [c \in 1..Cols(x) |-> LogSumExp([k \in 1..Rows(x) |-> x[k][c]])])

\* mics.utils.info writes one line: a message and a value.
Info(msg, val) == [msg |-> msg, val |-> val]

\* `mics.verbose and info(msg, val)`: the line is written only when the flag
\* is set, and the value of the expression is discarded.
Diagnostic(flag, log, msg, val) ==
  IF flag THEN Append(log, Info(msg, val)) ELSE log

\* A mixture as the sampling stage hands it over: m states, n[i] samples drawn
\* from state i, u[i] the m x n[i] block of every state's reduced potential
\* at those samples, f the initial guess of the free energies; u0, Theta and
\* Overlap are not set yet.
Mixture(n, u) ==
  [m |-> Len(n), n |-> n, u |-> u, f |-> [k \in 1..Len(n) |-> LZero],
   u0 |-> <<>>, Theta |-> <<>>, Overlap |-> <<>>]

\* ------------------------------------------------------------- class MBAR
\* An object without the attribute MBAR.
NoMBAR ==
  [K |-> 0, N |-> 0, N_k |-> <<>>, u_kn |-> <<>>, f_k |-> <<>>,
   Log_W_nk |-> <<>>, W_nk |-> <<>>]

\* __init__(self, tol=1e-12)
NewMBAR == [tol |-> "1e-12", MBAR |-> NoMBAR, P |-> <<>>]

\* flnpi = (mixture.f + np.log(n/sum(n)))[:, np.newaxis]
Flnpi(f, n) ==
  Bind2(f, n, LAMBDA ff, nn :
    [k \in 1..Len(nn) |-> LAdd(ff[k], Ln(Rat(nn[k], Sum(nn))))])

\* -logsumexp(flnpi - u) for one block u
MixturePotential(flnpi, u) ==
  Bind2(flnpi, u, LAMBDA fl, x :
    Bind1(LogSumExpAxis0([k \in 1..Rows(x) |->
                            [c \in 1..Cols(x) |-> LSub(fl[k], x[k][c])]]),
          LAMBDA lse : [c \in 1..Len(lse) |-> LNeg(lse[c])]))

\* np.exp(flnpi - mixture.u[i] + mixture.u0[i])
Posterior(flnpi, u, u0) ==
  Bind3(flnpi, u, u0, LAMBDA fl, x, x0 :
    [k \in 1..Rows(x) |->
       [c \in 1..Cols(x) |-> Exp(LAdd(LSub(fl[k], x[k][c]), x0[c]))]])

\* The weights with the Boltzmann factor left out: exp(Log_W_nk + u_kn).
WeightsWithoutBoltzmannFactor(mb) ==
  Bind2(mb.Log_W_nk, mb.u_kn, LAMBDA L, u :
    [n \in 1..Rows(L) |-> [k \in 1..Cols(L) |-> Exp(LAdd(L[n][k], u[k][n]))]])

\* np.exp(mb.Log_W_nk), the weights handed to the covariance computation
CovarianceWeights(mb) == ExpMatrix(mb.Log_W_nk)

\* N_k scaling the rows instead of the columns.
RowScaledOverlap(mb) ==
  Bind2(mb.N_k, MatMul(Transpose(mb.W_nk), mb.W_nk), LAMBDA N, S :
    [i \in 1..Len(N) |-> [j \in 1..Len(N) |-> RMul(R(N[i]), S[i][j])]])

\* mb.N_k*np.matmul(mb.W_nk.T, mb.W_nk): N_k scales the columns.
OverlapMatrix(mb) ==
  Bind2(mb.N_k, MatMul(Transpose(mb.W_nk), mb.W_nk), LAMBDA N, S :
    [i \in 1..Len(N) |-> [j \in 1..Len(N) |-> RMul(R(N[j]), S[i][j])]])

\* The fit is run but, with the flag set, its free energies are not stored.
FitMixtureKeepingGuess(slf, mixture, flag) ==
  Bind1(MBARFit(HStack(mixture.u), mixture.n, slf.tol, mixture.f, flag),
        LAMBDA mb :
          [self |-> [slf EXCEPT !.MBAR = mb],
           mixture |-> IF flag THEN mixture ELSE [mixture EXCEPT !.f = mb.f_k],
           out |-> Diagnostic(flag, <<>>, "Free energies after convergence:",
                              mb.f_k)])

\* __initialize__, lines 37-46: the fit, stored on self, and its free
\* energies, stored on the mixture.
FitMixture(slf, mixture, flag) ==
  Bind1(MBARFit(HStack(mixture.u), mixture.n, slf.tol, mixture.f, flag),
        LAMBDA mb :
          [self |-> [slf EXCEPT !.MBAR = mb],
           mixture |-> [mixture EXCEPT !.f = mb.f_k],
           out |-> Diagnostic(flag, <<>>, "Free energies after convergence:",
                              mb.f_k)])

\* __initialize__, lines 48-57: u0, P, Theta and Overlap from the fit.
DeriveFromFit(fitted, flag) ==
  Bind2(fitted, Flnpi(fitted.mixture.f, fitted.mixture.n), LAMBDA st, flnpi :
    Bind3([i \in 1..Len(st.mixture.u) |->
             MixturePotential(flnpi, st.mixture.u[i])],
          ComputeAsymptoticCovarianceMatrix(CovarianceWeights(st.self.MBAR),
                                            st.self.MBAR.N_k),
          OverlapMatrix(st.self.MBAR),
          LAMBDA u0, Theta, Overlap :
            [self |-> [st.self EXCEPT
                         !.P = [i \in 1..st.mixture.m |->
                                  Posterior(flnpi, st.mixture.u[i], u0[i])]],
             mixture |-> [st.mixture EXCEPT !.u0 = u0, !.Theta = Theta,
                                            !.Overlap = Overlap],
             out |-> Diagnostic(flag,
                       Diagnostic(flag, st.out,
                                  "Free-energy covariance matrix:", Theta),
                       "Overlap matrix:", Overlap)]))

\* __initialize__(self, mixture) under mics.verbose = flag
Initialized(slf, mixture, flag) ==
  DeriveFromFit(FitMixture(slf, mixture, flag), flag)

\* np.hstack(u).flatten(): the target potential at every pooled sample
TargetRow(u) == Concat(HStack(u))

\* Row 0 of every block, whatever ref is.
FirstStateRow(mixture, ref) ==
  Concat([i \in 1..Len(mixture.u) |-> At(mixture.u[i], 0)])

\* np.hstack(x[ref, :] for x in mixture.u): the potential of state ref at
\* every pooled sample
ReferenceRow(mixture, ref) ==
  Concat([i \in 1..Len(mixture.u) |-> At(mixture.u[i], ref)])

\* smap: np.arange(2) if n == 0, else the states [0]*n + [1] over the
\* properties [0..n-1] + [0]
StateMap(n) ==
  IF n = 0 THEN [ndim |-> 1, a |-> Arange(2)]
  ELSE [ndim |-> 2,
        a |-> << [i \in 1..n |-> 0] \o <<1>>, Arange(n) \o <<0>> >>]

\* results['f'][0] - results['f'][k]
FU(f, k) == LSub(At(f, 0), At(f, k))

\* The cross term added instead of subtracted.
D2FUCrossAdded(Theta) ==
  RAdd(RAdd(At2(Theta, 0, 0), At2(Theta, 1, 1)), RMul(R(2), At2(Theta, 0, 1)))

\* Theta[0, 0] + Theta[1, 1] - 2*Theta[0, 1]
D2FU(Theta) ==
  RSub(RAdd(At2(Theta, 0, 0), At2(Theta, 1, 1)), RMul(R(2), At2(Theta, 0, 1)))

\* delta = yu - results['Amin'][0:n]
Delta(yu, Amin) == [i \in 1..Len(yu) |-> RSub(yu[i], Amin[i])]

RECURSIVE SameSignLoop(_, _, _, _)
SameSignLoop(G, delta, n, i) ==
  IF i = n THEN G
  ELSE Bind1(SetAt(SetAt(G, i, i + 1, At(delta, i)),
                   n + 1 + i, i + 1, At(delta, i)),
             LAMBDA G1 : SameSignLoop(G1, delta, n, i + 1))

RECURSIVE GradientLoop(_, _, _, _)
\* for i in range(n): G[i, i+1] = delta[i]; G[n+1+i, i+1] = -delta[i]
GradientLoop(G, delta, n, i) ==
  IF i = n THEN G
  ELSE Bind1(SetAt(SetAt(G, i, i + 1, At(delta, i)),
                   n + 1 + i, i + 1, RNeg(At(delta, i))),
             LAMBDA G1 : GradientLoop(G1, delta, n, i + 1))

\* The +1 written one row early, at 2n instead of 2n+1.
GradientRowEarly(n, delta) ==
  Bind2(SetAt(SetAt(Zeros(2 * (n + 1), n + 1), n + 1, 0, R(-1)),
              2 * n, 0, R(1)),
        delta, LAMBDA G0, d : GradientLoop(G0, d, n, 0))

\* Both entries of a property's column written with the same sign.
GradientSameSign(n, delta) ==
  Bind2(SetAt(SetAt(Zeros(2 * (n + 1), n + 1), n + 1, 0, R(-1)),
              2 * n + 1, 0, R(1)),
        delta, LAMBDA G0, d : SameSignLoop(G0, d, n, 0))

\* G = np.zeros([2*(n+1), n+1]); G[n+1, 0] = -1.0; G[2*n+1, 0] = 1.0; then
\* the loop over the properties
Gradient(n, delta) ==
  Bind2(SetAt(SetAt(Zeros(2 * (n + 1), n + 1), n + 1, 0, R(-1)),
              2 * n + 1, 0, R(1)),
        delta, LAMBDA G0, d : GradientLoop(G0, d, n, 0))

\* What a call that raised leaves behind: the exception and the locals it
\* had assigned.
Raised(exc, n, u_ln) ==
  [raised |-> exc, value |-> <<>>, cov |-> <<>>, n |-> n, u_ln |-> u_ln,
   results |-> NoResults, G |-> <<>>]

\* __reweight__, lines 74-96: the returned pair from the library's results.
Returned(n, u_ln, results) ==
  IF n = 0
  THEN [raised |-> "none", value |-> <<FU(results.f, 1)>>,
        cov |-> << <<D2FU(results.Theta)>> >>, n |-> n, u_ln |-> u_ln,
        results |-> results, G |-> <<>>]
  ELSE Bind2(SubSeq(results.observables, 1, n),
             SubSeq(results.Amin, 1, n), LAMBDA yu, Amin :
         Bind1(Gradient(n, Delta(yu, Amin)), LAMBDA G :
           [raised |-> "none", value |-> <<FU(results.f, n)>> \o yu,
            cov |-> MultiDot(Transpose(G), results.Theta, G), n |-> n,
            u_ln |-> u_ln, results |-> results, G |-> G]))

\* __reweight__(self, mixture, u, y, ref): the outcome of the call and the
\* locals it computed.  self.MBAR is read at line 71, after u_ln, A_n and
\* smap are built.
Reweighted(slf, mixture, u, y, ref) ==
  Bind3(<<TargetRow(u), ReferenceRow(mixture, ref)>>, HStack(y), slf.MBAR,
        LAMBDA u_ln, A_n, mb :
          IF mb = NoMBAR THEN Raised("AttributeError", Rows(A_n), u_ln)
          ELSE IF ~ShapesAccepted(mb, A_n, u_ln)
          THEN Raised("ValueError", Rows(A_n), u_ln)
          ELSE Bind1(ComputeExpectationsInner(mb, A_n, u_ln,
                                              StateMap(Rows(A_n))),
                     LAMBDA results : Returned(Rows(A_n), u_ln, results)))

\* ------------------------------------------------------------- the inputs
MaxObs == 2

MaxGauge == 2

MixId == {1, 2}

\* The columns before block i in the pooled order.
Offset(n, i) == SumTo(n, i - 1)

\* A mixture from the Boltzmann factors b[k][x] = exp(-u_k(x)) of its m
\* states at the pooled samples, the first n[1] of them drawn from state 1.
FromFactors(n, b) ==
  Mixture(n, [i \in 1..Len(n) |->
                [k \in 1..Len(n) |->
                   [c \in 1..n[i] |-> Ln(Rat(1, b[k][Offset(n, i) + c]))]]])

\* The same samples with every reduced potential raised by ln g.
Shifted(mixture, g) ==
  [mixture EXCEPT
     !.u = [i \in 1..Len(mixture.u) |->
              [k \in 1..Len(mixture.u[i]) |->
                 [c \in 1..Len(mixture.u[i][k]) |->
                    LAdd(mixture.u[i][k][c], Ln(g))]]]]

\* exp(c) for the shifts c = ln g and c = -ln g
GaugeShifts ==
  {R(g) : g \in 2..MaxGauge} \cup {Rat(1, g) : g \in 2..MaxGauge}

\* One state; two states with 1+2, 2+1 and 1+1 samples.
MixA == FromFactors(<<3>>, << <<1, 2, 3>> >>)

MixB == FromFactors(<<1, 2>>, << <<1, 1, 1>>, <<1, 3, 3>> >>)

MixC == FromFactors(<<2, 1>>, << <<1, 1, 1>>, <<1, 1, 3>> >>)

MixD == FromFactors(<<1, 1>>, << <<2, 1>>, <<1, 2>> >>)

\* The two mixtures one MBAR object is used with: two unrelated ones, or a
\* mixture and its uniformly shifted copy.
MixturePairs ==
  {<<MixB, MixC>>, <<MixA, MixD>>}
    \cup {<<X, Shifted(X, g)>> : X \in {MixB, MixD}, g \in GaugeShifts}

\* The potential of state k (1-based) at every pooled sample.
PooledRow(mixture, k) ==
  ConcatTo([i \in 1..Len(mixture.u) |-> mixture.u[i][k]], Len(mixture.u))

\* A row over the pooled samples as the list of per-state blocks a query
\* passes; the last block takes whatever is left of the row.
Blocks(n, A) ==
  [i \in 1..Len(n) |->
     [r \in 1..Len(A) |->
        [c \in 1..(IF i = Len(n) THEN Len(A[r]) - Offset(n, i) ELSE n[i]) |->
           A[r][Offset(n, i) + c]]]]

\* Targets: each sampled state itself, and one state that was not sampled.
Targets(mixture) ==
  {Blocks(mixture.n, <<PooledRow(mixture, k)>>) : k \in 1..mixture.m}
    \cup {Blocks(mixture.n, << [c \in 1..Sum(mixture.n) |-> Ln(Rat(1, c))] >>)}

\* An observable over L samples: the constant 2, or the ramp 1, 2, .., L.
ObservableRow(j, L) ==
  IF j % 2 = 0 THEN [c \in 1..L |-> R(2)] ELSE [c \in 1..L |-> R(c)]

\* Observable sets of 0..MaxObs rows of the right length (ramp, constant,
\* ramp, ..), the constant alone, and single rows one sample short and one
\* sample long.
Observables(mixture) ==
  {Blocks(mixture.n, [j \in 1..n |-> ObservableRow(j, Sum(mixture.n))]) :
     n \in 0..MaxObs}
    \cup {Blocks(mixture.n, <<ObservableRow(2, Sum(mixture.n))>>)}
    \cup {Blocks(mixture.n, <<ObservableRow(1, L)>>) :
            L \in {Sum(mixture.n) - 1, Sum(mixture.n) + 1}}

\* -------------------------------------------------------- the state machine
\* mix      the two mixture objects
\* self     the MBAR object
\* verbose  the module flag mics.verbose
\* out      the diagnostic lines of the last __initialize__
\* ret      the call in flight: its arguments, the locals it computed and
\*          what it returned or raised, until the caller takes it
\* quiet    the same calls on equal inputs with mics.verbose false: the
\*          mixtures, the MBAR object and the outcome of the call in flight
VARIABLES mix, self, verbose, out, ret, quiet

vars == <<mix, self, verbose, out, ret, quiet>>

\* No call in flight.
Idle ==
  [op |-> "none", mixture |-> 0, u |-> <<>>, y |-> <<>>, ref |-> 0,
   raised |-> "none", value |-> <<>>, cov |-> <<>>, n |-> 0, u_ln |-> <<>>,
   results |-> NoResults, G |-> <<>>]

Init ==
  /\ \E pair \in MixturePairs :
       /\ mix = pair
       /\ quiet = [mix |-> pair, self |-> NewMBAR, raised |-> "none",
                   value |-> <<>>, cov |-> <<>>]
  /\ self = NewMBAR
  /\ verbose \in BOOLEAN
  /\ out = <<>>
  /\ ret = Idle

\* __initialize__(mix[M])
Initialize(M) ==
  /\ ret.op = "none"
  /\ \E r \in {Initialized(self, mix[M], verbose)},
        q \in {Initialized(quiet.self, quiet.mix[M], FALSE)} :
       /\ mix' = [mix EXCEPT ![M] = r.mixture]
       /\ self' = r.self
       /\ out' = r.out
       /\ quiet' = [quiet EXCEPT !.mix[M] = q.mixture, !.self = q.self]
  /\ ret' = [Idle EXCEPT !.op = "initialize", !.mixture = M]
  /\ UNCHANGED verbose

\* The query also keeps the covariance it was handed on the mixture.
ReweightStoringTheta(M, u, y, ref) ==
  /\ ret.op = "none"
  /\ \E r \in {Reweighted(self, mix[M], u, y, ref)},
        q \in {Reweighted(quiet.self, quiet.mix[M], u, y, ref)} :
       /\ ret' = [op |-> "reweight", mixture |-> M, u |-> u, y |-> y,
                  ref |-> ref, raised |-> r.raised, value |-> r.value,
                  cov |-> r.cov, n |-> r.n, u_ln |-> r.u_ln,
                  results |-> r.results, G |-> r.G]
       /\ quiet' = [quiet EXCEPT !.raised = q.raised, !.value = q.value,
                                 !.cov = q.cov]
       /\ mix' = [mix EXCEPT ![M].Theta =
                    IF r.raised = "none" THEN r.results.Theta ELSE @]
  /\ UNCHANGED <<self, verbose, out>>

\* __reweight__(mix[M], u, y, ref)
Reweight(M, u, y, ref) ==
  /\ ret.op = "none"
  /\ \E r \in {Reweighted(self, mix[M], u, y, ref)},
        q \in {Reweighted(quiet.self, quiet.mix[M], u, y, ref)} :
       /\ ret' = [op |-> "reweight", mixture |-> M, u |-> u, y |-> y,
                  ref |-> ref, raised |-> r.raised, value |-> r.value,
                  cov |-> r.cov, n |-> r.n, u_ln |-> r.u_ln,
                  results |-> r.results, G |-> r.G]
       /\ quiet' = [quiet EXCEPT !.raised = q.raised, !.value = q.value,
                                 !.cov = q.cov]
  /\ UNCHANGED <<mix, self, verbose, out>>

\* The caller takes what the call returned or raised.
Return ==
  /\ ret.op # "none"
  /\ ret' = Idle
  /\ quiet' = [quiet EXCEPT !.raised = "none", !.value = <<>>, !.cov = <<>>]
  /\ UNCHANGED <<mix, self, verbose, out>>

Next ==
  \/ \E M \in MixId : Initialize(M)
  \/ \E M \in MixId :
       \E u \in Targets(mix[M]), y \in Observables(mix[M]),
          ref \in 0..(mix[M].m - 1) :
         Reweight(M, u, y, ref)
  \/ Return

Spec == Init /\ [][Next]_vars

\* ---------------------------------------------------------------- claims
\* A query in flight that returned.
ReweightReturned == ret.op = "reweight" /\ ret.raised = "none"

\* The target potential a query was given, over the pooled samples.
GivenTarget == ConcatTo([i \in 1..Len(ret.u) |-> ret.u[i][1]], Len(ret.u))

\* Observable i of a query, over the pooled samples.
GivenObservable(i) ==
  ConcatTo([b \in 1..Len(ret.y) |-> ret.y[b][i]], Len(ret.y))

\* The number of observables a query was given.
GivenCount == Len(ret.y[1])

\* C1: a reweighting query never mutates state: across every __reweight__
\* call, in either branch and whatever calls came before, the mixtures
\* (f, u0, Theta, Overlap, u, n) and the MBAR object (its fit and P) are the
\* same after the call as before it.
C1_ReweightLeavesStateUnchanged ==
  [][ret'.op = "reweight" => mix' = mix /\ self' = self]_vars

C1_Witness ==
  /\ ReweightReturned
  /\ ret.n >= 1
  /\ mix[ret.mixture].Theta # <<>>
  /\ self.P # <<>>

\* C2: with zero observables the query returns exactly one value, the free
\* energy of row 0 of the 2-row potential block (the target) minus that of
\* row 1 (the reference state), and a 1x1 covariance whose entry is
\* Theta'[0][0] + Theta'[1][1] - 2*Theta'[0][1], Theta' being the covariance
\* the two-state estimation returned.
C2_ZeroObservables ==
  (ReweightReturned /\ GivenCount = 0) =>
    /\ ret.u_ln = <<GivenTarget, PooledRow(mix[ret.mixture], ret.ref + 1)>>
    /\ ret.results =
         ComputeExpectationsInner(self.MBAR, <<>>, ret.u_ln,
                                  [ndim |-> 1, a |-> <<0, 1>>])
    /\ ret.value = <<LSub(ret.results.f[1], ret.results.f[2])>>
    /\ ret.cov =
         << <<RSub(RAdd(ret.results.Theta[1][1], ret.results.Theta[2][2]),
                   RMul(R(2), ret.results.Theta[1][2]))>> >>

C2_Witness ==
  /\ ReweightReturned
  /\ GivenCount = 0
  /\ ret.value # <<LZero>>
  /\ ret.results.Theta[1][2] # R(0)

\* The Jacobian as C3 words it, rows and columns counted from 0: column 0 is
\* -1 at row n+1, +1 at row 2n+1; column i+1 is y_i - Amin_i at row i and
\* -(y_i - Amin_i) at row n+1+i; zero elsewhere.
ClaimedJacobian(n, value, Amin) ==
  [r \in 1..(2 * (n + 1)) |->
     [c \in 1..(n + 1) |->
        IF c = 1
        THEN IF r - 1 = n + 1 THEN R(-1)
             ELSE IF r - 1 = 2 * n + 1 THEN R(1) ELSE R(0)
        ELSE IF r - 1 = c - 2 THEN RSub(value[c], Amin[c - 1])
             ELSE IF r - 1 = n + 1 + (c - 2)
                  THEN RNeg(RSub(value[c], Amin[c - 1]))
                  ELSE R(0)]]

\* C3: with n >= 1 observables the returned covariance is G^T Theta G for
\* the 2(n+1) x (n+1) Jacobian G of (f_diff, y_1..y_n): the f_diff column is
\* -1 and +1 at the denominator rows n+1 and 2n+1 and zero elsewhere, the
\* column of y_i is y_i - Amin_i at row i and its negative at row n+1+i; the
\* value has length n+1 and the covariance is (n+1) x (n+1).
C3_DeltaMethodCovariance ==
  (ReweightReturned /\ GivenCount >= 1) =>
    Bind1(ClaimedJacobian(GivenCount, ret.value, ret.results.Amin), LAMBDA J :
      /\ Len(ret.value) = GivenCount + 1
      /\ Len(ret.cov) = GivenCount + 1
      /\ \A r \in 1..Len(ret.cov) : Len(ret.cov[r]) = GivenCount + 1
      /\ Len(ret.results.Theta) = 2 * (GivenCount + 1)
      /\ ret.G = J
      /\ ret.cov = MultiDot(Transpose(J), ret.results.Theta, J))

C3_Witness ==
  /\ ReweightReturned
  /\ GivenCount = MaxObs
  /\ ret.cov[1][2] # R(0)
  /\ ret.cov[2][2] # R(0)

\* The target of the query is the potential of its reference state at every
\* pooled sample.
TargetIsReference ==
  \A i \in 1..Len(ret.u) :
    ret.u[i][1] = mix[ret.mixture].u[i][ret.ref + 1]

\* C4: identity reweighting: with no observables and a target potential
\* equal to that of state ref at every pooled sample, f_diff is 0 and the
\* 1x1 covariance is [[0]], for every reference index.
C4_IdentityReweighting ==
  (ReweightReturned /\ GivenCount = 0 /\ TargetIsReference) =>
    ret.value = <<LZero>> /\ ret.cov = << <<R(0)>> >>

C4_Witness ==
  /\ ReweightReturned
  /\ GivenCount = 0
  /\ TargetIsReference
  /\ ret.ref = 1
  /\ mix[ret.mixture].Theta # <<>>
  /\ ret.value = <<LZero>>

\* Observable i of the query has one value at each of the N pooled samples,
\* the same at all of them.
ConstantObservable(i) ==
  Bind1(GivenObservable(i), LAMBDA row :
    /\ Len(row) = Sum(mix[ret.mixture].n)
    /\ \A c \in 1..Len(row) : row[c] = row[1])

\* C5: a constant observable: with n >= 1 observables, if observable i is c
\* at every pooled sample then the value at position i+1 is c and the
\* covariance entry [i+1][i+1] is 0, for every target and reference.
C5_ConstantObservable ==
  (ReweightReturned /\ GivenCount >= 1) =>
    \A i \in 1..GivenCount :
      ConstantObservable(i) =>
        /\ ret.value[i + 1] = GivenObservable(i)[1]
        /\ ret.cov[i + 1][i + 1] = R(0)

C5_Witness ==
  /\ ReweightReturned
  /\ GivenCount = 2
  /\ ConstantObservable(2)
  /\ ~TargetIsReference
  /\ ret.value[3] = R(2)
  /\ ret.cov[2][2] # R(0)

\* C6 as stated: the overlap matrix __initialize__ stores is symmetric,
\* O[i][j] = O[j][i] for all i, j, for every vector of sample counts.
C6_OverlapSymmetric ==
  \A M \in MixId :
    mix[M].Overlap # <<>> =>
      \A i, j \in 1..mix[M].m : mix[M].Overlap[i][j] = mix[M].Overlap[j][i]

\* C6, amended: the overlap matrix O[i][j] = N_j * sum_n W[n][i]*W[n][j]
\* satisfies N_i * O[i][j] = N_j * O[j][i] for all i, j, so it is symmetric
\* between states with equal sample counts.
C6_OverlapSymmetricUpToCounts ==
  \A M \in MixId :
    mix[M].Overlap # <<>> =>
      \A i, j \in 1..mix[M].m :
        /\ RMul(R(mix[M].n[i]), mix[M].Overlap[i][j])
             = RMul(R(mix[M].n[j]), mix[M].Overlap[j][i])
        /\ mix[M].n[i] = mix[M].n[j] =>
             mix[M].Overlap[i][j] = mix[M].Overlap[j][i]

C6_Witness ==
  \E M \in MixId :
    /\ mix[M].Overlap # <<>>
    /\ mix[M].m = 2
    /\ mix[M].n[1] # mix[M].n[2]
    /\ mix[M].Overlap[1][2] # mix[M].Overlap[2][1]

\* Some observable of the query has a length other than the pooled sample
\* count N of its mixture.
ObservableLengthMismatch ==
  \E i \in 1..GivenCount : Len(GivenObservable(i)) # Sum(mix[ret.mixture].n)

\* C7 as stated: a query with an observable vector whose length is not N
\* fails with DimensionMismatchError before any computation: no estimation
\* is run and no value/covariance pair is returned.
C7_LengthMismatchRejected ==
  (ret.op = "reweight" /\ self.MBAR # NoMBAR /\ ObservableLengthMismatch) =>
    /\ ret.raised = "DimensionMismatchError"
    /\ ret.results = NoResults
    /\ ret.value = <<>>
    /\ ret.cov = <<>>

\* C8: the verbosity flag affects only diagnostic output: after the same
\* calls on equal inputs, the run with mics.verbose as set and the run with
\* it false hold equal f, u0, Theta, Overlap and P, and every query returns
\* (or raises) the same in both.
C8_VerbosityOnlyDiagnostics ==
  /\ \A M \in MixId :
       /\ mix[M].f = quiet.mix[M].f
       /\ mix[M].u0 = quiet.mix[M].u0
       /\ mix[M].Theta = quiet.mix[M].Theta
       /\ mix[M].Overlap = quiet.mix[M].Overlap
  /\ self.P = quiet.self.P
  /\ ret.raised = quiet.raised
  /\ ret.value = quiet.value
  /\ ret.cov = quiet.cov

C8_Witness ==
  /\ verbose
  /\ Len(out) = 3
  /\ ReweightReturned
  /\ GivenCount >= 1
  /\ mix[ret.mixture].f # [k \in 1..mix[ret.mixture].m |-> LZero]

\* Mixture 2 is mixture 1 with every reduced potential raised by ln g, and
\* both have been fitted.
FittedShiftedPair(g) ==
  /\ mix[1].Theta # <<>>
  /\ mix[2].Theta # <<>>
  /\ mix[2].u = Shifted(mix[1], g).u

\* C9: gauge invariance of the solve: __initialize__ on a mixture whose
\* reduced potentials are all shifted by the same constant yields the same
\* free-energy differences f_j - f_k and the same Theta as on the unshifted
\* mixture.
C9_GaugeInvariance ==
  \A g \in GaugeShifts :
    FittedShiftedPair(g) =>
      /\ \A j, k \in 1..mix[1].m :
           LSub(mix[1].f[j], mix[1].f[k]) = LSub(mix[2].f[j], mix[2].f[k])
      /\ mix[1].Theta = mix[2].Theta

C9_Witness ==
  /\ FittedShiftedPair(R(2))
  /\ mix[1].m = 2
  /\ mix[1].f[2] # mix[1].f[1]
  /\ mix[1].Theta[1][2] # R(0)

\* C10 as stated: a query about mixture M is evaluated with the fit that the
\* most recent __initialize__(M) produced from M's own samples (its free
\* energies, log weights and sample counts), and no query is evaluated
\* before an __initialize__ has produced a fit.
C10_QueryUsesOwnFit ==
  /\ ReweightReturned => self.MBAR # NoMBAR
  /\ (ReweightReturned /\ mix[ret.mixture].Theta # <<>>) =>
       /\ self.MBAR.N_k = mix[ret.mixture].n
       /\ self.MBAR.f_k = mix[ret.mixture].f
       /\ self.MBAR.Log_W_nk =
            LogWeights(HStack(mix[ret.mixture].u), mix[ret.mixture].n,
                       mix[ret.mixture].f)

====
